---- MODULE Spec2Model ----
(***************************************************************************)
(* A model of the shared calendar bot (src/main.py): the SQLite store      *)
(* (events, notes, user_settings), the conversation handlers, and the      *)
(* periodic job check_reminders.                                           *)
(*                                                                         *)
(* Text is modelled as a sequence of one-character strings, so that        *)
(* parsing (strptime, int), formatting (strftime), escaping (html.escape)  *)
(* and SQL LIKE are computed character by character.                       *)
(***************************************************************************)
EXTENDS Integers, Sequences, FiniteSets, TLC

\* ------------------------------------------------------------------------
\* Bounds of the model
\* ------------------------------------------------------------------------

\* the largest number of rows the events table holds
MaxRows == 2

\* the largest number of rows the notes table ever gets
MaxNotes == 1

\* the largest number of updates the application dispatches
MaxUpdates == 4

\* the chat ids (owners) of the model
Owners == {101, 202}

\* ------------------------------------------------------------------------
\* Text
\* ------------------------------------------------------------------------

\* Python's None / SQL NULL: a value no text is equal to
None == <<"None">>

DigitChars == <<"0", "1", "2", "3", "4", "5", "6", "7", "8", "9">>

IsDigit(c) == \E i \in 1..10 : DigitChars[i] = c

DigitVal(c) == (CHOOSE i \in 1..10 : DigitChars[i] = c) - 1

AllDigits(s) == \A i \in 1..Len(s) : IsDigit(s[i])

RECURSIVE DecVal(_)
\* the value of a sequence of decimal digits
DecVal(s) ==
    IF s = <<>> THEN 0
    ELSE 10 * DecVal(SubSeq(s, 1, Len(s) - 1)) + DigitVal(s[Len(s)])

RECURSIVE SplitFrom(_, _, _, _)
\* the fields of s from position i on, cur being the field read so far
SplitFrom(s, c, i, cur) ==
    IF i > Len(s) THEN <<cur>>
    ELSE IF s[i] = c THEN <<cur>> \o SplitFrom(s, c, i + 1, <<>>)
    ELSE SplitFrom(s, c, i + 1, Append(cur, s[i]))

\* the fields of s between the separator characters c
Split(s, c) == SplitFrom(s, c, 1, <<>>)

\* two decimal digits, zero padded (%02d)
Pad2(n) == <<DigitChars[(n \div 10) + 1], DigitChars[(n % 10) + 1]>>

T_Anniversary == <<"A", "n", "n", "i", "v", "e", "r", "s", "a", "r", "y">>
T_MumDad == <<"M", "u", "m", "&", "D", "a", "d">>
T_UTC == <<"U", "T", "C">>
T_Honolulu == <<"P", "a", "c", "i", "f", "i", "c", "/", "H", "o", "n", "o", "l", "u", "l", "u">>
T_Singapore == <<"A", "s", "i", "a", "/", "S", "i", "n", "g", "a", "p", "o", "r", "e">>
T_Mars == <<"M", "a", "r", "s", "/", "P", "h", "o", "b", "o", "s">>
T_UtcPadded == <<" ", "U", "T", "C", " ">>
T_honolulu == <<"p", "a", "c", "i", "f", "i", "c", "/", "h", "o", "n", "o", "l", "u", "l", "u">>
D_15_06_2024 == <<"1", "5", "-", "0", "6", "-", "2", "0", "2", "4">>
D_29_02_2024 == <<"2", "9", "-", "0", "2", "-", "2", "0", "2", "4">>
D_slashes == <<"1", "5", "/", "0", "6", "/", "2", "0", "2", "4">>
H_09_00 == <<"0", "9", ":", "0", "0">>
H_09_01 == <<"0", "9", ":", "0", "1">>
H_23_00 == <<"2", "3", ":", "0", "0">>
H_9_00 == <<"9", ":", "0", "0">>
D_10_01_2023 == <<"1", "0", "-", "0", "1", "-", "2", "0", "2", "3">>

B_ListDates == <<"[calendar]", " ", "L", "i", "s", "t", " ", "D", "a", "t", "e", "s">>
B_AddDate == <<"[plus]", " ", "A", "d", "d", " ", "D", "a", "t", "e">>
B_ViewNotes == <<"[memo]", " ", "V", "i", "e", "w", " ", "N", "o", "t", "e", "s">>
B_AddNote == <<"[plus]", " ", "A", "d", "d", " ", "N", "o", "t", "e">>
B_OurJourney == <<"[heart]", " ", "O", "u", "r", " ", "J", "o", "u", "r", "n", "e", "y">>
B_DeleteItem == <<"[bin]", " ", "D", "e", "l", "e", "t", "e", " ", "I", "t", "e", "m">>
B_SetTimezone == <<"[globe]", " ", "S", "e", "t", " ", "T", "i", "m", "e", "z", "o", "n", "e">>
B_Back == <<"[back]", " ", "B", "a", "c", "k">>
C_start == <<"/", "s", "t", "a", "r", "t">>
C_cancel == <<"/", "c", "a", "n", "c", "e", "l">>
C_add == <<"/", "a", "d", "d">>
C_addnote == <<"/", "a", "d", "d", "n", "o", "t", "e">>
C_delete == <<"/", "d", "e", "l", "e", "t", "e">>
C_timezone == <<"/", "t", "i", "m", "e", "z", "o", "n", "e">>
T_DeleteDate == <<"D", "e", "l", "e", "t", "e", " ", "D", "a", "t", "e">>
T_DeleteNote == <<"D", "e", "l", "e", "t", "e", " ", "N", "o", "t", "e">>
T_anniversary == <<"a", "n", "n", "i", "v", "e", "r", "s", "a", "r", "y">>
T_OurAnniversary == <<"O", "u", "r", " ", "A", "n", "n", "i", "v", "e", "r", "s", "a", "r", "y">>
T_AnniversaryPrefix == <<"A", "n", "n", "i", "v", "e", "r", "s", "a", "r", "y">>
T_UtcDefault == <<"U", "T", "C", " ", "(", "D", "e", "f", "a", "u", "l", "t", ")">>
D_31_02_2024 == <<"3", "1", "-", "0", "2", "-", "2", "0", "2", "4">>
H_12_00 == <<"1", "2", ":", "0", "0">>
H_24_00 == <<"2", "4", ":", "0", "0">>
T_skip == <<"s", "k", "i", "p">>
T_Skip == <<"S", "k", "i", "p">>
T_Todo == <<"T", "o", "d", "o">>
T_Milk == <<"m", "i", "l", "k">>
T_1 == <<"1">>
T_2 == <<" ", "2">>
T_x == <<"x">>
P_file == <<"f", "i", "l", "e", "_", "1">>

UpperChars == <<"A", "B", "C", "D", "E", "F", "G", "H", "I", "J", "K", "L", "M",
                "N", "O", "P", "Q", "R", "S", "T", "U", "V", "W", "X", "Y", "Z">>

LowerChars == <<"a", "b", "c", "d", "e", "f", "g", "h", "i", "j", "k", "l", "m",
                "n", "o", "p", "q", "r", "s", "t", "u", "v", "w", "x", "y", "z">>

\* str.lower() of one ASCII character
LowerChar(c) ==
    LET at == {i \in 1..26 : UpperChars[i] = c}
    IN  IF at = {} THEN c ELSE LowerChars[CHOOSE i \in at : TRUE]

\* str.lower()
Lower(s) == [i \in 1..Len(s) |-> LowerChar(s[i])]

IsSpace(c) == c \in {" ", "\n", "\t"}

RECURSIVE LStrip(_)
LStrip(s) == IF s # <<>> /\ IsSpace(Head(s)) THEN LStrip(Tail(s)) ELSE s

RECURSIVE RStrip(_)
RStrip(s) ==
    IF s # <<>> /\ IsSpace(s[Len(s)]) THEN RStrip(SubSeq(s, 1, Len(s) - 1)) ELSE s

\* str.strip()
Strip(s) == RStrip(LStrip(s))

\* the text of int(s) without its sign: int() strips white space and takes
\* one sign (digit grouping with "_" is not modelled)
IntDigits(s) ==
    LET t == Strip(s)
    IN  IF t # <<>> /\ t[1] \in {"+", "-"} THEN Tail(t) ELSE t

\* int(s) does not raise ValueError
IntParses(s) == IntDigits(s) # <<>> /\ AllDigits(IntDigits(s))

\* int(s), where it parses
IntValue(s) ==
    IF Strip(s)[1] = "-" THEN 0 - DecVal(IntDigits(s)) ELSE DecVal(IntDigits(s))

\* html.escape of one character (quote=True)
EscapeChar(c) ==
    CASE c = "&" -> <<"&", "a", "m", "p", ";">>
      [] c = "<" -> <<"&", "l", "t", ";">>
      [] c = ">" -> <<"&", "g", "t", ";">>
      [] c = "\"" -> <<"&", "q", "u", "o", "t", ";">>
      [] c = "'" -> <<"&", "#", "x", "2", "7", ";">>
      [] OTHER -> <<c>>

RECURSIVE HtmlEscape(_)
HtmlEscape(s) ==
    IF s = <<>> THEN <<>> ELSE EscapeChar(Head(s)) \o HtmlEscape(Tail(s))

\* secure_text: html.escape of a non-empty text, "" for None or ""
secure_text(text) ==
    IF text # None /\ text # <<>> THEN HtmlEscape(text) ELSE <<>>

\* ------------------------------------------------------------------------
\* datetime: the proleptic Gregorian calendar
\* ------------------------------------------------------------------------

IsLeap(y) == y % 4 = 0 /\ (y % 100 # 0 \/ y % 400 = 0)

DaysInMonth(y, m) ==
    IF m = 2 THEN (IF IsLeap(y) THEN 29 ELSE 28)
    ELSE IF m \in {4, 6, 9, 11} THEN 30 ELSE 31

\* datetime.date(y, m, d) raises ValueError unless this holds
ValidDate(y, m, d) ==
    /\ y \in 1..9999
    /\ m \in 1..12
    /\ d \in 1..DaysInMonth(y, m)

DaysBeforeYear(y) ==
    (y - 1) * 365 + ((y - 1) \div 4) - ((y - 1) \div 100) + ((y - 1) \div 400)

\* the days of a year before the first of month m
DaysBeforeMonth(y, m) ==
    <<0, 31, 59, 90, 120, 151, 181, 212, 243, 273, 304, 334>>[m]
    + (IF m > 2 /\ IsLeap(y) THEN 1 ELSE 0)

\* date.toordinal(): 1 for 0001-01-01
ToOrdinal(dt) ==
    DaysBeforeYear(dt.year) + DaysBeforeMonth(dt.year, dt.month) + dt.day

\* date.fromordinal(n)
FromOrdinal(n) ==
    LET n0   == n - 1
        n400 == n0 \div 146097
        r400 == n0 % 146097
        n100 == r400 \div 36524
        r100 == r400 % 36524
        n4   == r100 \div 1461
        r4   == r100 % 1461
        n1   == r4 \div 365
        r1   == r4 % 365
        y    == n400 * 400 + n100 * 100 + n4 * 4 + n1 + 1
    IN  IF n1 = 4 \/ n100 = 4
        THEN [year |-> y - 1, month |-> 12, day |-> 31]
        ELSE LET m == CHOOSE k \in 1..12 :
                          /\ DaysBeforeMonth(y, k) <= r1
                          /\ r1 < DaysBeforeMonth(y, k) + DaysInMonth(y, k)
             IN  [year |-> y, month |-> m, day |-> r1 - DaysBeforeMonth(y, m) + 1]

\* date1 < date2
DateLess(a, b) == ToOrdinal(a) < ToOrdinal(b)

\* (date1 - date2).days
DaysBetween(a, b) == ToOrdinal(a) - ToOrdinal(b)

\* the %d field of strptime: 3[0-1] | [1-2]\d | 0[1-9] | [1-9] | " "[1-9]
DayField(f) ==
    \/ Len(f) = 2 /\ f[1] = "3" /\ f[2] \in {"0", "1"}
    \/ Len(f) = 2 /\ f[1] \in {"1", "2"} /\ IsDigit(f[2])
    \/ Len(f) = 2 /\ f[1] \in {"0", " "} /\ IsDigit(f[2]) /\ f[2] # "0"
    \/ Len(f) = 1 /\ IsDigit(f[1]) /\ f[1] # "0"

\* the %m field: 1[0-2] | 0[1-9] | [1-9]
MonthField(f) ==
    \/ Len(f) = 2 /\ f[1] = "1" /\ f[2] \in {"0", "1", "2"}
    \/ Len(f) = 2 /\ f[1] = "0" /\ IsDigit(f[2]) /\ f[2] # "0"
    \/ Len(f) = 1 /\ IsDigit(f[1]) /\ f[1] # "0"

\* the %Y field: \d\d\d\d
YearField(f) == Len(f) = 4 /\ AllDigits(f)

\* the %H field: 2[0-3] | [0-1]\d | \d
HourField(f) ==
    \/ Len(f) = 2 /\ f[1] = "2" /\ f[2] \in {"0", "1", "2", "3"}
    \/ Len(f) = 2 /\ f[1] \in {"0", "1"} /\ IsDigit(f[2])
    \/ Len(f) = 1 /\ IsDigit(f[1])

\* the %M field: [0-5]\d | \d
MinuteField(f) ==
    \/ Len(f) = 2 /\ f[1] \in {"0", "1", "2", "3", "4", "5"} /\ IsDigit(f[2])
    \/ Len(f) = 1 /\ IsDigit(f[1])

\* the digits of a field whose first character may be a space
FieldVal(f) == DecVal(IF f[1] = " " THEN Tail(f) ELSE f)

\* datetime.strptime(s, "%d-%m-%Y") does not raise ValueError
ParsesDate(s) ==
    /\ s # None
    /\ LET f == Split(s, "-")
       IN  /\ Len(f) = 3
           /\ DayField(f[1])
           /\ MonthField(f[2])
           /\ YearField(f[3])
           /\ ValidDate(FieldVal(f[3]), FieldVal(f[2]), FieldVal(f[1]))

\* datetime.strptime(s, "%d-%m-%Y").date(), where it parses
StrptimeDate(s) ==
    LET f == Split(s, "-")
    IN  [year |-> FieldVal(f[3]), month |-> FieldVal(f[2]), day |-> FieldVal(f[1])]

\* datetime.strptime(s, "%H:%M") does not raise ValueError
ParsesTime(s) ==
    LET f == Split(s, ":")
    IN  /\ Len(f) = 2
        /\ HourField(f[1])
        /\ MinuteField(f[2])

\* ------------------------------------------------------------------------
\* pytz
\* ------------------------------------------------------------------------

\* the zone names of pytz.all_timezones the model knows, all without DST
AllTimezones == {T_UTC, T_Honolulu, T_Singapore}

\* the UTC offset of a known zone, in minutes
UtcOffset(zone) ==
    CASE zone = T_UTC -> 0
      [] zone = T_Honolulu -> -600
      [] zone = T_Singapore -> 480

\* the known zone names in lower case
LowerZoneNames == {Lower(z) : z \in AllTimezones}

\* pytz.timezone(zone) does not raise UnknownTimeZoneError: the name is
\* looked up without regard to case
KnownZone(zone) == zone \in AllTimezones \/ Lower(zone) \in LowerZoneNames

\* the zone pytz.timezone(zone) returns
LookupZone(zone) ==
    IF zone \in AllTimezones THEN zone
    ELSE CHOOSE z \in AllTimezones : Lower(z) = Lower(zone)

\* a variant of ResolveTz that falls back to the server's zone, not to UTC
ResolveTz_ServerZone(timezone) ==
    LET tz_name == IF timezone # None /\ timezone # <<>> THEN timezone ELSE T_UTC
    IN  IF KnownZone(tz_name) THEN LookupZone(tz_name) ELSE T_Singapore

\* user_tz of check_reminders: pytz.timezone(tz_name), pytz.utc when that
\* raises UnknownTimeZoneError; tz_name is 'UTC' for a NULL or empty setting
ResolveTz(timezone) ==
    LET tz_name == IF timezone # None /\ timezone # <<>> THEN timezone ELSE T_UTC
    IN  IF KnownZone(tz_name) THEN LookupZone(tz_name) ELSE T_UTC

\* utc_now.astimezone(user_tz): the local date and minute of the day
AsTimezone(now, user_tz) ==
    LET total == now.hour * 60 + now.minute + UtcOffset(user_tz)
        shift == IF total < 0 THEN -1 ELSE IF total >= 1440 THEN 1 ELSE 0
        local == total - shift * 1440
    IN  [date   |-> FromOrdinal(ToOrdinal(now.date) + shift),
         hour   |-> local \div 60,
         minute |-> local % 60]

\* user_now.strftime("%H:%M")
StrftimeHM(t) == Pad2(t.hour) \o <<":">> \o Pad2(t.minute)

\* ------------------------------------------------------------------------
\* State
\* ------------------------------------------------------------------------

VARIABLES
    events,         \* table events: rows [id, chat_id, name, event_date, notify_time]
    notes,          \* table notes: rows [id, chat_id, title, content, photo_id]
    user_settings,  \* table user_settings: rows [chat_id, timezone]
    seq,            \* sqlite_sequence: the last AUTOINCREMENT id of each table
    conv,           \* per chat, the state of each ConversationHandler
    user_data,      \* per chat, context.user_data
    reply,          \* the last reply call a handler made
    update,         \* the last update the application dispatched
    update_id,      \* the number of updates the application has dispatched
    clock,          \* our_journey: today, as the handler that ran last read it
                    \* from the clock of the server (NoDate when it read none)
    chosen,         \* history (no state of the program): per chat, the category
                    \* ("event", "note") the chat chose since delete_start last
                    \* opened its delete conversation, "None" when it chose none
    pc,             \* check_reminders: "idle", "sending", "done" or "raised"
    rows,           \* check_reminders: the rows fetched by the SELECT
    utc_now,        \* check_reminders: utc_now
    idx,            \* check_reminders: the position of the loop in rows
    trace,          \* check_reminders: what each iteration of the loop did
    outbox,         \* check_reminders: the send_message calls made, in order
    outcome,        \* check_reminders: how the last send_message call ended
    last_run        \* history (no state of the program), kept by Observed:
                    \* the run of the job before this one, when it returned
                    \* after making send_message calls in the same minute on
                    \* the same rows

store == <<events, notes, user_settings, seq>>
chat  == <<conv, user_data, reply, update, update_id, clock, chosen>>
job   == <<pc, rows, utc_now, idx, trace, outbox, outcome>>
vars  == <<events, notes, user_settings, seq, conv, user_data, reply, update, update_id, clock, chosen,
           pc, rows, utc_now, idx, trace, outbox, outcome, last_run>>

\* ------------------------------------------------------------------------
\* check_reminders
\* ------------------------------------------------------------------------

RECURSIVE SortById(_)
\* the rows of a table in rowid order, the order of a full table scan
SortById(S) ==
    IF S = {} THEN <<>>
    ELSE LET r == CHOOSE x \in S : \A y \in S : x.id <= y.id
         IN  <<r>> \o SortById(S \ {r})

\* u.timezone of the LEFT JOIN for one event: NULL when no settings row matches
JoinTimezone(e, settings) ==
    LET m == {u \in settings : u.chat_id = e.chat_id}
    IN  IF m = {} THEN None ELSE (CHOOSE u \in m : TRUE).timezone

\* one row of the SELECT
JoinRow(e, settings) ==
    [chat_id     |-> e.chat_id,
     name        |-> e.name,
     event_date  |-> e.event_date,
     notify_time |-> e.notify_time,
     timezone    |-> JoinTimezone(e, settings)]

\* SELECT e.chat_id, e.name, e.event_date, e.notify_time, u.timezone
\* FROM events e LEFT JOIN user_settings u ON e.chat_id = u.chat_id
SelectRows(evs, settings) ==
    LET s == SortById(evs)
    IN  [i \in 1..Len(s) |-> JoinRow(s[i], settings)]

\* a variant of TimeMatches that compares the parsed hour and minute, not
\* the texts
TimeMatches_Parsed(user_time_str, notify_time) ==
    /\ ParsesTime(notify_time)
    /\ LET f == Split(notify_time, ":")
           g == Split(user_time_str, ":")
       IN  FieldVal(f[1]) = FieldVal(g[1]) /\ FieldVal(f[2]) = FieldVal(g[2])

\* "1. Check if the TIME matches": the loop goes on when this holds
TimeMatches(user_time_str, notify_time) == user_time_str = notify_time

\* event_dt.replace(year=y) does not raise ValueError
CanReplaceYear(event_dt, y) == ValidDate(y, event_dt.month, event_dt.day)

\* a variant of ThisYearEvent that never moves on to next year
ThisYearEvent_NoAdvance(event_dt, user_today) ==
    IF ~CanReplaceYear(event_dt, user_today.year)
    THEN [raised |-> TRUE, date |-> event_dt]
    ELSE [raised |-> FALSE, date |-> [event_dt EXCEPT !.year = user_today.year]]

\* a variant of ThisYearEvent that moves 29 February to 28 February in a
\* year that is no leap year
ThisYearEvent_Clamp(event_dt, user_today) ==
    LET in(y)     == IF CanReplaceYear(event_dt, y)
                     THEN [event_dt EXCEPT !.year = y]
                     ELSE [year |-> y, month |-> 2, day |-> 28]
        this_year == in(user_today.year)
    IN  IF DateLess(this_year, user_today)
        THEN [raised |-> FALSE, date |-> in(user_today.year + 1)]
        ELSE [raised |-> FALSE, date |-> this_year]

\* "2. Check if the DATE matches": this_year_event, or a ValueError
ThisYearEvent(event_dt, user_today) ==
    IF ~CanReplaceYear(event_dt, user_today.year)
    THEN [raised |-> TRUE, date |-> event_dt]
    ELSE LET this_year == [event_dt EXCEPT !.year = user_today.year]
         IN  IF DateLess(this_year, user_today)
             THEN IF CanReplaceYear(event_dt, user_today.year + 1)
                  THEN [raised |-> FALSE,
                        date   |-> [event_dt EXCEPT !.year = user_today.year + 1]]
                  ELSE [raised |-> TRUE, date |-> event_dt]
             ELSE [raised |-> FALSE, date |-> this_year]

\* message of an iteration that selected none
NoMessage == [template |-> "None", name |-> <<>>, weeks |-> 0]

\* a variant of SelectMessage whose weeks branch has no upper bound
SelectMessage_AnyWeek(days_until, name) ==
    IF days_until = 30
    THEN [template |-> "is in 1 month", name |-> secure_text(name), weeks |-> 0]
    ELSE IF 0 < days_until /\ days_until % 7 = 0
    THEN [template |-> "is in {weeks} week(s)", name |-> secure_text(name),
          weeks |-> days_until \div 7]
    ELSE IF days_until = 1
    THEN [template |-> "is TOMORROW", name |-> secure_text(name), weeks |-> 0]
    ELSE IF days_until = 0
    THEN [template |-> "Today is the day", name |-> secure_text(name), weeks |-> 0]
    ELSE NoMessage

\* a variant of SelectMessage whose weeks branch has no lower bound
SelectMessage_ZeroWeeks(days_until, name) ==
    IF days_until = 30
    THEN [template |-> "is in 1 month", name |-> secure_text(name), weeks |-> 0]
    ELSE IF days_until < 30 /\ days_until % 7 = 0
    THEN [template |-> "is in {weeks} week(s)", name |-> secure_text(name),
          weeks |-> days_until \div 7]
    ELSE IF days_until = 1
    THEN [template |-> "is TOMORROW", name |-> secure_text(name), weeks |-> 0]
    ELSE IF days_until = 0
    THEN [template |-> "Today is the day", name |-> secure_text(name), weeks |-> 0]
    ELSE NoMessage

\* "3. Create the message based on how close the event is"
SelectMessage(days_until, name) ==
    IF days_until = 30
    THEN [template |-> "is in 1 month", name |-> secure_text(name), weeks |-> 0]
    ELSE IF 0 < days_until /\ days_until < 30 /\ days_until % 7 = 0
    THEN [template |-> "is in {weeks} week(s)", name |-> secure_text(name),
          weeks |-> days_until \div 7]
    ELSE IF days_until = 1
    THEN [template |-> "is TOMORROW", name |-> secure_text(name), weeks |-> 0]
    ELSE IF days_until = 0
    THEN [template |-> "Today is the day", name |-> secure_text(name), weeks |-> 0]
    ELSE NoMessage

\* what one iteration did: step is "time" (continue at the time check),
\* "ValueError" (the except branch), "quiet" (no message) or "send"
Iteration(step, days, message) ==
    [step |-> step, has_days |-> step \in {"quiet", "send"},
     days_until |-> days, message |-> message]

\* the body of the loop for one row, up to the send_message call
EvalRow(row, now) ==
    LET user_tz       == ResolveTz(row.timezone)
        user_now      == AsTimezone(now, user_tz)
        user_today    == user_now.date
        user_time_str == StrftimeHM(user_now)
    IN  IF ~TimeMatches(user_time_str, row.notify_time)
        THEN Iteration("time", 0, NoMessage)
        ELSE IF ~ParsesDate(row.event_date)
        THEN Iteration("ValueError", 0, NoMessage)
        ELSE LET event_dt == StrptimeDate(row.event_date)
                 occ      == ThisYearEvent(event_dt, user_today)
             IN  IF occ.raised
                 THEN Iteration("ValueError", 0, NoMessage)
                 ELSE LET days_until == DaysBetween(occ.date, user_today)
                          message    == SelectMessage(days_until, row.name)
                      IN  IF message # NoMessage
                          THEN Iteration("send", days_until, message)
                          ELSE Iteration("quiet", days_until, message)

RECURSIVE RunLoop_Uncaught(_, _, _, _)
\* a variant of RunLoop without the except branch: a ValueError ends the loop
RunLoop_Uncaught(rs, now, i, tr) ==
    IF i > Len(rs) THEN [idx |-> i, trace |-> tr]
    ELSE LET it == EvalRow(rs[i], now)
         IN  IF it.step = "send"
             THEN [idx |-> i, trace |-> Append(tr, it)]
             ELSE IF it.step = "ValueError"
             THEN [idx |-> Len(rs) + 1, trace |-> Append(tr, it)]
             ELSE RunLoop_Uncaught(rs, now, i + 1, Append(tr, it))

RECURSIVE RunLoop(_, _, _, _)
\* the for loop from row i on, up to the next send_message call or the end:
\* the job does not yield to the event loop anywhere else
RunLoop(rs, now, i, tr) ==
    IF i > Len(rs) THEN [idx |-> i, trace |-> tr]
    ELSE LET it == EvalRow(rs[i], now)
         IN  IF it.step = "send"
             THEN [idx |-> i, trace |-> Append(tr, it)]
             ELSE RunLoop(rs, now, i + 1, Append(tr, it))

\* a variant of SendCall addressed to the chat of the first row
SendCall_FirstRow(rs, i, it) ==
    [row |-> i, chat_id |-> rs[1].chat_id, text |-> it.message, parse_mode |-> "HTML"]

\* the arguments of application.bot.send_message for row i
SendCall(rs, i, it) ==
    [row |-> i, chat_id |-> rs[i].chat_id, text |-> it.message, parse_mode |-> "HTML"]

\* the state of the job after running the loop from row i
Resume(rs, now, i, tr, out) ==
    LET r == RunLoop(rs, now, i, tr)
    IN  /\ idx' = r.idx
        /\ trace' = r.trace
        /\ IF r.idx <= Len(rs)
           THEN /\ pc' = "sending"
                /\ outbox' = Append(out, SendCall(rs, r.idx, r.trace[Len(r.trace)]))
           ELSE /\ pc' = "done"
                /\ outbox' = out

\* the instants (UTC) at which the scheduler may run the job: days around
\* 15 June 2025, around 29 February 2024 and before 10 January 2025
Dates2025 ==
    {[year |-> 2025, month |-> 5, day |-> d] : d \in {16, 18, 25}}
    \cup {[year |-> 2025, month |-> 6, day |-> d] : d \in {1, 8, 14, 15, 16}}
    \cup {[year |-> 2025, month |-> 2, day |-> 28]}

Dates2024 ==
    {[year |-> 2024, month |-> 1, day |-> 30],
     [year |-> 2024, month |-> 2, day |-> 29],
     [year |-> 2024, month |-> 3, day |-> 1],
     [year |-> 2024, month |-> 12, day |-> 1],
     [year |-> 2024, month |-> 12, day |-> 11]}

Instants ==
    {[date |-> d, hour |-> 9, minute |-> 0] : d \in Dates2025 \cup Dates2024}
    \cup {[date |-> [year |-> 2025, month |-> 6, day |-> 15], hour |-> 9, minute |-> 1]}

NoInstant == [date |-> [year |-> 1, month |-> 1, day |-> 1], hour |-> 0, minute |-> 0]

NoDate == NoInstant.date

\* no earlier run to compare the current run with
NoRun == [utc_now |-> NoInstant, rows |-> <<>>, outbox |-> <<>>]

\* a variant of check_reminders with a memory: it leaves out the rows the
\* run before notified in the same minute
check_reminders_Once(now) ==
    LET told  == {last_run.rows[last_run.outbox[j].row] : j \in 1..Len(last_run.outbox)}
        fresh == {e \in events : last_run.utc_now # now \/ JoinRow(e, user_settings) \notin told}
    IN  /\ pc = "idle"
        /\ rows' = SelectRows(fresh, user_settings)
        /\ utc_now' = now
        /\ outcome' = "none"
        /\ Resume(SelectRows(fresh, user_settings), now, 1, <<>>, <<>>)
        /\ UNCHANGED <<store, chat>>

\* the job starts: the SELECT, utc_now, and the loop up to the first send
check_reminders(now) ==
    /\ pc = "idle"
    /\ rows' = SelectRows(events, user_settings)
    /\ utc_now' = now
    /\ outcome' = "none"
    /\ Resume(SelectRows(events, user_settings), now, 1, <<>>, <<>>)
    /\ UNCHANGED <<store, chat>>

\* a variant of send_message_returns that drops the notified event from the
\* table
send_message_returns_Purge ==
    /\ pc = "sending"
    /\ outcome' = "sent"
    /\ Resume(rows, utc_now, idx + 1, trace, outbox)
    /\ events' = {e \in events : e.chat_id # rows[idx].chat_id \/ e.name # rows[idx].name}
    /\ UNCHANGED <<notes, user_settings, seq, chat, rows, utc_now, last_run>>

\* the awaited send_message call returns, and the loop goes on
send_message_returns ==
    /\ pc = "sending"
    /\ outcome' = "sent"
    /\ Resume(rows, utc_now, idx + 1, trace, outbox)
    /\ UNCHANGED <<store, chat, rows, utc_now, last_run>>

\* the awaited send_message call raises: NetworkError or Forbidden is no
\* ValueError, so it leaves the loop and the job
send_message_raises(err) ==
    /\ pc = "sending"
    /\ outcome' = err
    /\ pc' = "raised"
    /\ UNCHANGED <<store, chat, rows, utc_now, idx, trace, outbox, last_run>>

\* a variant of check_reminders_exit in which an exception of the job stops
\* the scheduler: only a job that returned is run again
check_reminders_exit_Fatal ==
    /\ pc = "done"
    /\ pc' = "idle"
    /\ rows' = <<>>
    /\ utc_now' = NoInstant
    /\ idx' = 0
    /\ trace' = <<>>
    /\ outbox' = <<>>
    /\ outcome' = "none"
    /\ UNCHANGED <<store, chat>>

\* the job is over (it returned, or the scheduler logged its exception);
\* its locals are gone
check_reminders_exit ==
    /\ pc \in {"done", "raised"}
    /\ pc' = "idle"
    /\ rows' = <<>>
    /\ utc_now' = NoInstant
    /\ idx' = 0
    /\ trace' = <<>>
    /\ outbox' = <<>>
    /\ outcome' = "none"
    /\ UNCHANGED <<store, chat>>

SendErrors == {"NetworkError", "Forbidden"}

Engine ==
    \/ \E now \in Instants : check_reminders(now) /\ UNCHANGED last_run
    \/ send_message_returns
    \/ \E err \in SendErrors : send_message_raises(err)
    \/ check_reminders_exit /\ UNCHANGED last_run

\* the job with the history of its runs kept: a run that returned after
\* making calls is remembered until a run starts in another minute or on
\* other rows
Observed ==
    \/ \E now \in Instants :
          /\ check_reminders(now)
          /\ last_run' = IF /\ last_run.utc_now = now
                            /\ last_run.rows = SelectRows(events, user_settings)
                         THEN last_run ELSE NoRun
    \/ send_message_returns
    \/ \E err \in SendErrors : send_message_raises(err)
    \/ /\ check_reminders_exit
       /\ last_run' = IF pc = "done" /\ outbox # <<>>
                      THEN [utc_now |-> utc_now, rows |-> rows, outbox |-> outbox]
                      ELSE last_run

\* ------------------------------------------------------------------------
\* The dispatch of an update to a handler
\* ------------------------------------------------------------------------

\* a text message, and a photo message with its caption (None without one)
TextMessage(text) == [text |-> text, photo |-> None, caption |-> None]

PhotoMessage(photo, caption) == [text |-> None, photo |-> photo, caption |-> caption]

\* filters.COMMAND: the text starts with a bot command
IsCommand(m) == m.text # None /\ Len(m.text) > 1 /\ m.text[1] = "/"

\* CommandHandler(c): the first word of the text is the command, in any case
Command(m, c) == IsCommand(m) /\ Lower(Split(m.text, " ")[1]) = c

\* filters.Regex("^b$"): the text is b
Regex(m, b) == m.text # None /\ m.text = b

\* text_filter: text that is no command and not the Back button
text_filter(m) == m.text # None /\ ~IsCommand(m) /\ ~Regex(m, B_Back)

\* the fallbacks of every conversation
Fallback(m) == Command(m, C_cancel) \/ Regex(m, B_Back)

\* what a ConversationHandler in state st does with update m: the handler
\* of an entry point when no conversation is open, else the handler of the
\* state, else a fallback; "None" when it does not take the update
ConvCheck(st, m, entry, first) ==
    IF st = "END"
    THEN IF entry THEN first ELSE "None"
    ELSE IF st = "NOTE_CONTENT" /\ (text_filter(m) \/ m.photo # None) THEN "get_note_content"
    ELSE IF st # "NOTE_CONTENT" /\ text_filter(m)
    THEN CASE st = "SET_TIMEZONE" -> "save_timezone"
           [] st = "NAME" -> "get_name"
           [] st = "DATE" -> "get_date"
           [] st = "TIME" -> "get_time"
           [] st = "NOTE_TITLE" -> "get_note_title"
           [] st = "DELETE_CHOICE" -> "delete_router"
    ELSE IF Fallback(m) THEN "back_to_menu"
    ELSE "None"

\* the handler the application runs for update m of chat o, and the
\* conversation it belongs to: the first handler, in the order of
\* add_handler, that takes the update
Route(o, m) ==
    LET tz == ConvCheck(conv[o].timezone, m,
                        Command(m, C_timezone) \/ Regex(m, B_SetTimezone), "timezone_start")
        ae == ConvCheck(conv[o].add_event, m,
                        Command(m, C_add) \/ Regex(m, B_AddDate), "add_event_start")
        an == ConvCheck(conv[o].add_note, m,
                        Command(m, C_addnote) \/ Regex(m, B_AddNote), "add_note_start")
        de == ConvCheck(conv[o].delete, m,
                        Command(m, C_delete) \/ Regex(m, B_DeleteItem), "delete_start")
    IN  IF Command(m, C_start) THEN [handler |-> "start", conv |-> "None"]
        ELSE IF Regex(m, B_ListDates) THEN [handler |-> "list_events", conv |-> "None"]
        ELSE IF Regex(m, B_ViewNotes) THEN [handler |-> "list_notes", conv |-> "None"]
        ELSE IF Regex(m, B_OurJourney) THEN [handler |-> "our_journey", conv |-> "None"]
        ELSE IF tz # "None" THEN [handler |-> tz, conv |-> "timezone"]
        ELSE IF ae # "None" THEN [handler |-> ae, conv |-> "add_event"]
        ELSE IF an # "None" THEN [handler |-> an, conv |-> "add_note"]
        ELSE IF de # "None" THEN [handler |-> de, conv |-> "delete"]
        ELSE [handler |-> "None", conv |-> "None"]

\* the application dispatches update m of chat o to handler h; handlers run
\* one at a time, and while the job awaits a send_message call
Handle(o, m, h) ==
    /\ pc \in {"idle", "sending"}
    /\ update_id < MaxUpdates
    /\ Route(o, m).handler = h
    /\ update' = [chat_id |-> o, message |-> m]
    /\ update_id' = update_id + 1
    /\ IF h = "our_journey" THEN TRUE ELSE clock' = NoDate
    /\ chosen' = IF h = "delete_start" THEN [chosen EXCEPT ![o] = "None"]
                 ELSE IF h = "delete_router" /\ m.text = T_DeleteDate
                 THEN [chosen EXCEPT ![o] = "event"]
                 ELSE IF h = "delete_router" /\ m.text = T_DeleteNote
                 THEN [chosen EXCEPT ![o] = "note"]
                 ELSE chosen
    /\ UNCHANGED <<job, last_run>>

\* update.message.reply_text / reply_photo: the call made, and whether it
\* returned (sent) or raised
Reply(o, text, texts, numbers, shown, sent) ==
    reply' = [chat_id |-> o, text |-> text, texts |-> texts, numbers |-> numbers,
              shown |-> shown, sent |-> sent]

\* the handler returned state st for conversation c: a handler whose reply
\* raised returned nothing, and the conversation keeps its state
Return(o, c, st, sent) ==
    conv' = IF sent THEN [conv EXCEPT ![o][c] = st] ELSE conv

\* the rows of a table of chat o, in rowid order
RowsOf(table, o) == SortById({r \in table : r.chat_id = o})

\* the ids and escaped names a listing of events shows
ShownEvents(rs) ==
    [i \in 1..Len(rs) |-> [id |-> rs[i].id, label |-> secure_text(rs[i].name)]]

\* the ids and escaped titles a listing of notes shows
ShownNotes(rs) ==
    [i \in 1..Len(rs) |-> [id |-> rs[i].id, label |-> secure_text(rs[i].title)]]

\* ------------------------------------------------------------------------
\* Handlers
\* ------------------------------------------------------------------------

start(o, text, sent) ==
    /\ Handle(o, TextMessage(text), "start")
    /\ Reply(o, "Hello!", <<>>, <<>>, <<>>, sent)
    /\ UNCHANGED <<store, conv, user_data>>

\* a variant of back_to_menu that also drops the events of the chat
back_to_menu_Purge(o, text, sent) ==
    /\ Handle(o, TextMessage(text), "back_to_menu")
    /\ Reply(o, "Returned to Main Menu.", <<>>, <<>>, <<>>, sent)
    /\ Return(o, Route(o, TextMessage(text)).conv, "END", sent)
    /\ events' = {e \in events : e.chat_id # o}
    /\ UNCHANGED <<notes, user_settings, seq, user_data>>

back_to_menu(o, text, sent) ==
    /\ Handle(o, TextMessage(text), "back_to_menu")
    /\ Reply(o, "Returned to Main Menu.", <<>>, <<>>, <<>>, sent)
    /\ Return(o, Route(o, TextMessage(text)).conv, "END", sent)
    /\ UNCHANGED <<store, user_data>>

\* a variant of LikeAnniversary for the pattern '%Anniversary%'
LikeAnniversary_Contains(name) ==
    \E i \in 1..Len(name) :
        /\ i + Len(T_AnniversaryPrefix) - 1 <= Len(name)
        /\ Lower(SubSeq(name, i, i + Len(T_AnniversaryPrefix) - 1)) = Lower(T_AnniversaryPrefix)

\* name LIKE 'Anniversary%': LIKE compares ASCII letters without regard to case
LikeAnniversary(name) ==
    /\ Len(name) >= Len(T_AnniversaryPrefix)
    /\ Lower(SubSeq(name, 1, Len(T_AnniversaryPrefix))) = Lower(T_AnniversaryPrefix)

\* a variant of Breakdown that counts at most 11 months
Breakdown_Calendar(total_days) ==
    LET years          == total_days \div 365
        remaining_days == total_days % 365
        months         == IF remaining_days \div 30 > 11 THEN 11 ELSE remaining_days \div 30
        days           == remaining_days - 30 * months
    IN  <<years, months, days, total_days>>

\* a variant of Breakdown whose divisions round towards zero, the remainder
\* taking the sign of total_days
Breakdown_Truncated(total_days) ==
    LET sign           == IF total_days < 0 THEN -1 ELSE 1
        size           == sign * total_days
        years          == sign * (size \div 365)
        remaining_days == sign * (size % 365)
        months         == sign * ((size % 365) \div 30)
        days           == sign * ((size % 365) % 30)
    IN  <<years, months, days, total_days>>

\* years, months, days and total_days of our_journey
Breakdown(total_days) ==
    LET years          == total_days \div 365
        remaining_days == total_days % 365
        months         == remaining_days \div 30
        days           == remaining_days % 30
    IN  <<years, months, days, total_days>>

\* a variant of our_journey that counts to the date in the zone of the chat
\* at 09:00 UTC of the server's today
our_journey_Local(o, text, today, sent) ==
    /\ Handle(o, TextMessage(text), "our_journey")
    /\ LET found == RowsOf({e \in events : LikeAnniversary(e.name)}, o)
           zone  == JoinTimezone([chat_id |-> o], user_settings)
           local == AsTimezone([date |-> today, hour |-> 9, minute |-> 0], ResolveTz(zone)).date
       IN  IF found = <<>>
           THEN /\ Reply(o, "I don't know when you started!", <<>>, <<>>, <<>>, sent)
                /\ clock' = NoDate
           ELSE IF ~ParsesDate(found[1].event_date)
           THEN /\ Reply(o, "Error calculating date.", <<>>, <<>>, <<>>, sent)
                /\ clock' = NoDate
           ELSE /\ Reply(o, "Our Journey Together", <<>>,
                         Breakdown(DaysBetween(local, StrptimeDate(found[1].event_date))),
                         <<>>, sent)
                /\ clock' = today
    /\ UNCHANGED <<store, conv, user_data>>

\* today is datetime.now().date(), the date of the server
our_journey(o, text, today, sent) ==
    /\ Handle(o, TextMessage(text), "our_journey")
    /\ LET found == RowsOf({e \in events : LikeAnniversary(e.name)}, o)
       IN  IF found = <<>>
           THEN /\ Reply(o, "I don't know when you started!", <<>>, <<>>, <<>>, sent)
                /\ clock' = NoDate
           ELSE IF ~ParsesDate(found[1].event_date)
           THEN /\ Reply(o, "Error calculating date.", <<>>, <<>>, <<>>, sent)
                /\ clock' = NoDate
           ELSE /\ Reply(o, "Our Journey Together", <<>>,
                         Breakdown(DaysBetween(today, StrptimeDate(found[1].event_date))),
                         <<>>, sent)
                /\ clock' = today
    /\ UNCHANGED <<store, conv, user_data>>

timezone_start(o, text, sent) ==
    /\ Handle(o, TextMessage(text), "timezone_start")
    /\ Reply(o, "Select your Timezone", <<>>, <<>>, <<>>, sent)
    /\ Return(o, "timezone", "SET_TIMEZONE", sent)
    /\ UNCHANGED <<store, user_data>>

\* REPLACE INTO user_settings (chat_id, timezone): chat_id is the PRIMARY KEY
\* a variant of ReplaceSetting that inserts a row and keeps the old ones
ReplaceSetting_Insert(settings, o, zone) ==
    settings \cup {[chat_id |-> o, timezone |-> zone]}

ReplaceSetting(settings, o, zone) ==
    {u \in settings : u.chat_id # o} \cup {[chat_id |-> o, timezone |-> zone]}

\* a variant of save_timezone that accepts every name pytz.timezone resolves
save_timezone_Lenient(o, text, sent) ==
    /\ Handle(o, TextMessage(text), "save_timezone")
    /\ LET user_tz == Strip(text)
       IN  IF ~KnownZone(user_tz)
           THEN /\ Reply(o, "Invalid Timezone.", <<>>, <<>>, <<>>, sent)
                /\ Return(o, "timezone", "SET_TIMEZONE", sent)
                /\ UNCHANGED user_settings
           ELSE /\ user_settings' = ReplaceSetting(user_settings, o, user_tz)
                /\ Reply(o, "Timezone set to", <<user_tz>>, <<>>, <<>>, sent)
                /\ Return(o, "timezone", "END", sent)
    /\ UNCHANGED <<events, notes, seq, user_data>>

save_timezone(o, text, sent) ==
    /\ Handle(o, TextMessage(text), "save_timezone")
    /\ LET user_tz == Strip(text)
       IN  IF user_tz \notin AllTimezones
           THEN /\ Reply(o, "Invalid Timezone.", <<>>, <<>>, <<>>, sent)
                /\ Return(o, "timezone", "SET_TIMEZONE", sent)
                /\ UNCHANGED user_settings
           ELSE /\ user_settings' = ReplaceSetting(user_settings, o, user_tz)
                /\ Reply(o, "Timezone set to", <<user_tz>>, <<>>, <<>>, sent)
                /\ Return(o, "timezone", "END", sent)
    /\ UNCHANGED <<events, notes, seq, user_data>>

add_event_start(o, text, sent) ==
    /\ Handle(o, TextMessage(text), "add_event_start")
    /\ Reply(o, "What is the name of the event?", <<>>, <<>>, <<>>, sent)
    /\ Return(o, "add_event", "NAME", sent)
    /\ UNCHANGED <<store, user_data>>

get_name(o, text, sent) ==
    /\ Handle(o, TextMessage(text), "get_name")
    /\ user_data' = [user_data EXCEPT ![o].event_name = text]
    /\ Reply(o, "Great! What is the date?", <<>>, <<>>, <<>>, sent)
    /\ Return(o, "add_event", "DATE", sent)
    /\ UNCHANGED store

get_date(o, text, sent) ==
    /\ Handle(o, TextMessage(text), "get_date")
    /\ IF ParsesDate(text)
       THEN /\ user_data' = [user_data EXCEPT ![o].event_date = text]
            /\ Reply(o, "Date saved!", <<>>, <<>>, <<>>, sent)
            /\ Return(o, "add_event", "TIME", sent)
       ELSE /\ Reply(o, "Invalid format. Please use DD-MM-YYYY.", <<>>, <<>>, <<>>, sent)
            /\ Return(o, "add_event", "DATE", sent)
            /\ UNCHANGED user_data
    /\ UNCHANGED store

\* INSERT INTO events: AUTOINCREMENT gives an id above every id ever used
InsertEvent(o, name, event_date, final_time) ==
    /\ seq.events < MaxRows
    /\ events' = events \cup {[id |-> seq.events + 1, chat_id |-> o, name |-> name,
                               event_date |-> event_date, notify_time |-> final_time]}
    /\ seq' = [seq EXCEPT !.events = seq.events + 1]

get_time(o, text, sent) ==
    /\ Handle(o, TextMessage(text), "get_time")
    /\ LET time_text == Strip(text)
       IN  IF Lower(time_text) # T_skip /\ ~ParsesTime(time_text)
           THEN /\ Reply(o, "Invalid format. Use HH:MM or type 'skip'.", <<>>, <<>>, <<>>, sent)
                /\ Return(o, "add_event", "TIME", sent)
                /\ UNCHANGED <<events, seq>>
           ELSE /\ InsertEvent(o, user_data[o].event_name, user_data[o].event_date,
                               IF Lower(time_text) = T_skip THEN H_12_00 ELSE time_text)
                /\ Reply(o, "Saved:",
                         <<secure_text(user_data[o].event_name), user_data[o].event_date>>,
                         <<>>, <<>>, sent)
                /\ Return(o, "add_event", "END", sent)
    /\ UNCHANGED <<notes, user_settings, user_data>>

add_note_start(o, text, sent) ==
    /\ Handle(o, TextMessage(text), "add_note_start")
    /\ Reply(o, "New Note: What is the Title?", <<>>, <<>>, <<>>, sent)
    /\ Return(o, "add_note", "NOTE_TITLE", sent)
    /\ UNCHANGED <<store, user_data>>

get_note_title(o, text, sent) ==
    /\ Handle(o, TextMessage(text), "get_note_title")
    /\ user_data' = [user_data EXCEPT ![o].note_title = text]
    /\ Reply(o, "Got it. Send Text or a Photo.", <<>>, <<>>, <<>>, sent)
    /\ Return(o, "add_note", "NOTE_CONTENT", sent)
    /\ UNCHANGED store

\* INSERT INTO notes
InsertNote(o, title, content, photo_id) ==
    /\ seq.notes < MaxNotes
    /\ notes' = notes \cup {[id |-> seq.notes + 1, chat_id |-> o, title |-> title,
                             content |-> content, photo_id |-> photo_id]}
    /\ seq' = [seq EXCEPT !.notes = seq.notes + 1]

get_note_content(o, m, sent) ==
    /\ Handle(o, m, "get_note_content")
    /\ LET content == IF m.photo # None
                      THEN (IF m.caption # None /\ m.caption # <<>> THEN m.caption ELSE <<>>)
                      ELSE m.text
       IN  InsertNote(o, user_data[o].note_title, content, m.photo)
    /\ Reply(o, "Note saved!", <<>>, <<>>, <<>>, sent)
    /\ Return(o, "add_note", "END", sent)
    /\ UNCHANGED <<events, user_settings, user_data>>

list_events(o, text, sent) ==
    /\ Handle(o, TextMessage(text), "list_events")
    /\ LET mine   == RowsOf(events, o)
           tz_row == {u \in user_settings : u.chat_id = o}
           user_tz == IF tz_row # {} THEN (CHOOSE u \in tz_row : TRUE).timezone
                      ELSE T_UtcDefault
       IN  IF mine = <<>>
           THEN Reply(o, "No dates saved yet!", <<>>, <<>>, <<>>, sent)
           ELSE Reply(o, "Your Important Dates:", <<user_tz>>, <<>>,
                      ShownEvents(mine), sent)
    /\ UNCHANGED <<store, conv, user_data>>

\* the last reply of list_notes is "Done."; when a reply raised, it is the
\* first one: the text notes, or else the first photo
list_notes(o, text, sent) ==
    /\ Handle(o, TextMessage(text), "list_notes")
    /\ LET mine        == RowsOf(notes, o)
           text_notes  == RowsOf({n \in notes : n.photo_id = None}, o)
           image_notes == RowsOf({n \in notes : n.photo_id # None}, o)
       IN  IF mine = <<>>
           THEN Reply(o, "No notes saved yet!", <<>>, <<>>, <<>>, sent)
           ELSE IF sent
           THEN Reply(o, "Done.", <<>>, <<>>,
                      ShownNotes(text_notes) \o ShownNotes(image_notes), sent)
           ELSE IF text_notes # <<>>
           THEN Reply(o, "Your Saved Notes:", <<>>, <<>>, ShownNotes(text_notes), sent)
           ELSE Reply(o, "reply_photo", <<>>, <<>>,
                      ShownNotes(SubSeq(image_notes, 1, 1)), sent)
    /\ UNCHANGED <<store, conv, user_data>>

delete_start(o, text, sent) ==
    /\ Handle(o, TextMessage(text), "delete_start")
    /\ Reply(o, "What would you like to delete?", <<>>, <<>>, <<>>, sent)
    /\ Return(o, "delete", "DELETE_CHOICE", sent)
    /\ UNCHANGED <<store, user_data>>

\* a variant of DeleteWhere without the condition on chat_id
DeleteWhere_AnyChat(table, item_id, o) == {r \in table : r.id # item_id}

\* the rows left by DELETE FROM table WHERE id = item_id AND chat_id = o
DeleteWhere(table, item_id, o) ==
    {r \in table : ~(r.id = item_id /\ r.chat_id = o)}

\* the reply to a numeric id comes before the commit: when it raises, the
\* connection is dropped with the DELETE rolled back
delete_router(o, text, sent) ==
    /\ Handle(o, TextMessage(text), "delete_router")
    /\ IF text = T_DeleteDate
       THEN /\ user_data' = [user_data EXCEPT ![o].delete_type = "event"]
            /\ IF RowsOf(events, o) = <<>>
               THEN Reply(o, "No dates to delete.", <<>>, <<>>, <<>>, sent)
               ELSE Reply(o, "Reply with the ID to delete:", <<>>, <<>>,
                          ShownEvents(RowsOf(events, o)), sent)
            /\ Return(o, "delete", "DELETE_CHOICE", sent)
            /\ UNCHANGED <<events, notes>>
       ELSE IF text = T_DeleteNote
       THEN /\ user_data' = [user_data EXCEPT ![o].delete_type = "note"]
            /\ IF RowsOf(notes, o) = <<>>
               THEN Reply(o, "No notes to delete.", <<>>, <<>>, <<>>, sent)
               ELSE Reply(o, "Reply with the ID to delete:", <<>>, <<>>,
                          ShownNotes(RowsOf(notes, o)), sent)
            /\ Return(o, "delete", "DELETE_CHOICE", sent)
            /\ UNCHANGED <<events, notes>>
       ELSE IF ~IntParses(text)
       THEN /\ Reply(o, "Please select an option or enter a valid ID number.",
                     <<>>, <<>>, <<>>, sent)
            /\ Return(o, "delete", "DELETE_CHOICE", sent)
            /\ UNCHANGED <<events, notes, user_data>>
       ELSE LET item_id == IntValue(text)
                table   == IF user_data[o].delete_type = "event" THEN "events" ELSE "notes"
                left    == DeleteWhere(IF table = "events" THEN events ELSE notes, item_id, o)
                found   == left # (IF table = "events" THEN events ELSE notes)
            IN  /\ IF found
                   THEN /\ Reply(o, "Deleted successfully.", <<>>, <<>>, <<>>, sent)
                        /\ Return(o, "delete", "END", sent)
                        /\ events' = IF sent /\ table = "events" THEN left ELSE events
                        /\ notes' = IF sent /\ table = "notes" THEN left ELSE notes
                   ELSE /\ Reply(o, "Could not find that ID.", <<>>, <<>>, <<>>, sent)
                        /\ Return(o, "delete", "DELETE_CHOICE", sent)
                        /\ UNCHANGED <<events, notes>>
                /\ UNCHANGED user_data
    /\ UNCHANGED <<user_settings, seq>>

\* ------------------------------------------------------------------------
\* The updates the chats send
\* ------------------------------------------------------------------------

NameTexts == {T_Anniversary, T_MumDad}

DateTexts == {D_15_06_2024, D_29_02_2024, D_31_02_2024}

TimeTexts == {H_09_00, H_9_00, T_Skip, H_24_00}

ZoneTexts == {T_Honolulu, T_Singapore, T_Mars}

DeleteTexts == {T_DeleteDate, T_DeleteNote, T_1, T_2, T_x}

NoteMessages == {TextMessage(T_Milk), PhotoMessage(P_file, None)}

\* the dates of the server at which a chat asks for the journey
ServerDates == {[year |-> 2025, month |-> 7, day |-> 20],
                [year |-> 2024, month |-> 1, day |-> 30]}

\* the instants at which the scheduler runs the job while chats are served
FlowInstants == {[date |-> [year |-> 2025, month |-> 6, day |-> 15], hour |-> 9, minute |-> 0]}

\* whether a reply call returns: a reply that raises is exercised where the
\* handler has work left to do after it
Delivery(h) == IF h = "delete_router" THEN BOOLEAN ELSE {TRUE}

Handlers ==
    \E o \in Owners :
        \/ \E sent \in Delivery("start") : start(o, C_start, sent)
        \/ \E sent \in Delivery("back_to_menu") : \E text \in {B_Back, C_cancel} : back_to_menu(o, text, sent)
        \/ \E sent \in Delivery("our_journey") : \E today \in ServerDates : our_journey(o, B_OurJourney, today, sent)
        \/ \E sent \in Delivery("timezone_start") : \E text \in {B_SetTimezone, C_timezone} : timezone_start(o, text, sent)
        \/ \E sent \in Delivery("save_timezone") : \E text \in ZoneTexts : save_timezone(o, text, sent)
        \/ \E sent \in Delivery("add_event_start") : \E text \in {B_AddDate, C_add} : add_event_start(o, text, sent)
        \/ \E sent \in Delivery("get_name") : \E text \in NameTexts : get_name(o, text, sent)
        \/ \E sent \in Delivery("get_date") : \E text \in DateTexts : get_date(o, text, sent)
        \/ \E sent \in Delivery("get_time") : \E text \in TimeTexts : get_time(o, text, sent)
        \/ \E sent \in Delivery("add_note_start") : \E text \in {B_AddNote, C_addnote} : add_note_start(o, text, sent)
        \/ \E sent \in Delivery("get_note_title") : get_note_title(o, T_Todo, sent)
        \/ \E sent \in Delivery("get_note_content") : \E m \in NoteMessages : get_note_content(o, m, sent)
        \/ \E sent \in Delivery("list_events") : list_events(o, B_ListDates, sent)
        \/ \E sent \in Delivery("list_notes") : list_notes(o, B_ViewNotes, sent)
        \/ \E sent \in Delivery("delete_start") : \E text \in {B_DeleteItem, C_delete} : delete_start(o, text, sent)
        \/ \E sent \in Delivery("delete_router") : \E text \in DeleteTexts : delete_router(o, text, sent)

\* ------------------------------------------------------------------------
\* Initial states
\* ------------------------------------------------------------------------

\* context.user_data of a chat that sent nothing yet; delete_type holds
\* "None", "event" or "note"
NoUserData == [event_name |-> None, event_date |-> None,
               note_title |-> None, delete_type |-> "None"]

NoConv == [timezone |-> "END", add_event |-> "END", add_note |-> "END", delete |-> "END"]

NoReply == [chat_id |-> 0, text |-> "None", texts |-> <<>>, numbers |-> <<>>,
            shown |-> <<>>, sent |-> FALSE]

NoUpdate == [chat_id |-> 0, message |-> [text |-> None, photo |-> None, caption |-> None]]

InitChat ==
    /\ conv = [o \in Owners |-> NoConv]
    /\ user_data = [o \in Owners |-> NoUserData]
    /\ reply = NoReply
    /\ update = NoUpdate
    /\ update_id = 0
    /\ clock = NoDate
    /\ chosen = [o \in Owners |-> "None"]

InitJob ==
    /\ pc = "idle"
    /\ rows = <<>>
    /\ utc_now = NoInstant
    /\ idx = 0
    /\ trace = <<>>
    /\ outbox = <<>>
    /\ outcome = "none"
    /\ last_run = NoRun

\* the texts the rows of a store holding one event are drawn from
StoredNames == {T_Anniversary, T_MumDad}
StoredDates == {D_15_06_2024, D_29_02_2024, D_10_01_2023, D_slashes}
StoredTimes == {H_09_00, H_09_01, H_23_00, H_9_00}
StoredZones == {T_Honolulu, T_honolulu, T_Mars}

EventRows == [chat_id : Owners, name : StoredNames,
              event_date : StoredDates, notify_time : StoredTimes]

\* the rows of a store holding several events: each chat's events carry one name
ScanName(o) == IF o = 101 THEN T_Anniversary ELSE T_MumDad

ScanRows == {[chat_id |-> o, name |-> ScanName(o), event_date |-> d, notify_time |-> t] :
                o \in Owners, d \in {D_15_06_2024, D_slashes}, t \in {H_09_00, H_09_01}}

\* a database file as the bot may find it at start: rows of the schema
\* (a TEXT column holds any text), ids as AUTOINCREMENT gave them, at most
\* one settings row per chat_id (the PRIMARY KEY). A store of one event
\* holds any row of EventRows; a store of several holds rows of ScanRows.
InitAnyStore ==
    \E n \in 0..MaxRows :
        /\ \E f \in [1..n -> IF n <= 1 THEN EventRows ELSE ScanRows] :
              events = {[id |-> i, chat_id |-> f[i].chat_id, name |-> f[i].name,
                         event_date |-> f[i].event_date,
                         notify_time |-> f[i].notify_time] : i \in 1..n}
        /\ seq = [events |-> n, notes |-> 0]
        /\ \E zs \in SUBSET Owners :
              \E z \in [zs -> IF n <= 1 THEN StoredZones ELSE {T_Mars}] :
                  user_settings = {[chat_id |-> o, timezone |-> z[o]] : o \in zs}
        /\ notes = {}

EngineInit == InitAnyStore /\ InitChat /\ InitJob

\* the reminder engine over any database file
EngineSpec == EngineInit /\ [][Engine]_vars

\* the reminder engine over any database file, with the history of its runs
RepeatSpec == EngineInit /\ [][Observed]_vars

\* the rows of a store a chat asks for the journey on
JourneyNames == {T_Anniversary, T_anniversary, T_OurAnniversary}

JourneyRows == [chat_id : Owners, name : JourneyNames,
                event_date : {D_15_06_2024, D_slashes}, notify_time : {H_09_00}]

\* a database file of up to MaxRows such events; chat 101 with or without a
\* zone
JourneyInit ==
    /\ \E n \in 0..MaxRows :
          /\ \E f \in [1..n -> JourneyRows] :
                events = {[id |-> i, chat_id |-> f[i].chat_id, name |-> f[i].name,
                           event_date |-> f[i].event_date,
                           notify_time |-> f[i].notify_time] : i \in 1..n}
          /\ seq = [events |-> n, notes |-> 0]
    /\ \E z \in {None, T_Honolulu} :
          user_settings = IF z = None THEN {} ELSE {[chat_id |-> 101, timezone |-> z]}
    /\ notes = {}
    /\ InitChat
    /\ InitJob

\* the dates of the server at which a chat asks: 0, 29, 30, 360, 364, 365
\* and 400 days after 15 June 2024, and a day before it
JourneyDates ==
    {[year |-> 2024, month |-> 6, day |-> 15], [year |-> 2024, month |-> 7, day |-> 14],
     [year |-> 2024, month |-> 7, day |-> 15], [year |-> 2025, month |-> 6, day |-> 10],
     [year |-> 2025, month |-> 6, day |-> 14], [year |-> 2025, month |-> 6, day |-> 15],
     [year |-> 2025, month |-> 7, day |-> 20], [year |-> 2024, month |-> 1, day |-> 30]}

Journey ==
    \E o \in Owners : \E today \in JourneyDates : our_journey(o, B_OurJourney, today, TRUE)

\* the elapsed-time calculator over any such database file
JourneySpec == JourneyInit /\ [][Journey]_vars

\* a database file with one event of chat 101, which has no zone or one
\* pytz knows
ZoneInit ==
    /\ \E t \in {H_09_00, H_23_00} :
          events = {[id |-> 1, chat_id |-> 101, name |-> T_Anniversary,
                     event_date |-> D_15_06_2024, notify_time |-> t]}
    /\ seq = [events |-> 1, notes |-> 0]
    /\ \E z \in {None} \cup AllTimezones :
          user_settings = IF z = None THEN {} ELSE {[chat_id |-> 101, timezone |-> z]}
    /\ notes = {}
    /\ InitChat
    /\ InitJob

\* the elapsed-time calculator and the reminder engine side by side
ZoneSpec == ZoneInit /\ [][Journey \/ Engine]_vars

\* the rows of a store with events of 29 February
LeapRows == {[chat_id |-> o, name |-> ScanName(o), event_date |-> d, notify_time |-> H_09_00] :
                o \in Owners, d \in {D_29_02_2024, D_15_06_2024}}

\* a database file of MaxRows such events; chat 101 with or without a zone
\* name pytz does not know
LeapInit ==
    /\ \E f \in [1..MaxRows -> LeapRows] :
          events = {[id |-> i, chat_id |-> f[i].chat_id, name |-> f[i].name,
                     event_date |-> f[i].event_date,
                     notify_time |-> f[i].notify_time] : i \in 1..MaxRows}
    /\ seq = [events |-> MaxRows, notes |-> 0]
    /\ \E zs \in {{}, {101}} :
          user_settings = {[chat_id |-> o, timezone |-> T_Mars] : o \in zs}
    /\ notes = {}
    /\ InitChat
    /\ InitJob

\* the reminder engine over events of 29 February
LeapSpec == LeapInit /\ [][Engine]_vars

\* the scheduler started by post_init runs the job at every interval for as
\* long as the process lives, and an exception of the job is logged by the
\* scheduler and not raised further; bot.send_message ends after its
\* request timeouts at the latest, returning or raising
\* (weak fairness of the start of the job, of the end of a send_message
\* call and of the end of the job; the first two are written out, with
\* pc = "idle" and pc = "sending" as the conditions under which the steps
\* are enabled)
Scheduler ==
    /\ \/ []<>(pc # "idle")
       \/ []<><<\E now \in Instants : check_reminders(now)>>_vars
    /\ \/ []<>(pc # "sending")
       \/ []<><<send_message_returns \/ \E err \in SendErrors : send_message_raises(err)>>_vars
    /\ WF_vars(check_reminders_exit /\ UNCHANGED last_run)

\* the rows of a full store the scheduler runs the job on: dates that parse
\* or not, notify_time padded or not
LiveRows == {[chat_id |-> o, name |-> ScanName(o), event_date |-> d, notify_time |-> t] :
                o \in Owners, d \in {D_15_06_2024, D_slashes}, t \in {H_09_00, H_9_00}}

\* a database file of MaxRows events, every chat or none with a zone name
\* pytz does not know
LiveInit ==
    /\ \E f \in [1..MaxRows -> LiveRows] :
          events = {[id |-> i, chat_id |-> f[i].chat_id, name |-> f[i].name,
                     event_date |-> f[i].event_date,
                     notify_time |-> f[i].notify_time] : i \in 1..MaxRows}
    /\ seq = [events |-> MaxRows, notes |-> 0]
    /\ \E zs \in {{}, Owners} :
          user_settings = {[chat_id |-> o, timezone |-> T_Mars] : o \in zs}
    /\ notes = {}
    /\ InitChat
    /\ InitJob

\* the reminder engine run by the scheduler
LiveSpec == LiveInit /\ [][Engine]_vars /\ Scheduler

\* init_db creates the tables only if they do not exist: the bot starts on a
\* new database file, or on the rows its flows stored in earlier runs
SeedEvents ==
    {[id |-> 1, chat_id |-> 101, name |-> T_Anniversary,
      event_date |-> D_15_06_2024, notify_time |-> H_09_00],
     [id |-> 2, chat_id |-> 202, name |-> T_MumDad,
      event_date |-> D_15_06_2024, notify_time |-> H_09_00]}

SeedNotes ==
    {[id |-> 1, chat_id |-> 101, title |-> T_Todo, content |-> T_Milk, photo_id |-> None]}

SeedSettings == {[chat_id |-> 202, timezone |-> T_UTC]}

init_db ==
    \/ /\ events = {}
       /\ notes = {}
       /\ seq = [events |-> 0, notes |-> 0]
       /\ user_settings = {}
    \/ /\ events = SeedEvents
       /\ notes = SeedNotes
       /\ seq = [events |-> Cardinality(SeedEvents), notes |-> Cardinality(SeedNotes)]
       /\ user_settings = SeedSettings

Init == init_db /\ InitChat /\ InitJob

\* the job as the scheduler runs it while chats are served
Job ==
    \/ \E now \in FlowInstants : check_reminders(now) /\ UNCHANGED last_run
    \/ send_message_returns
    \/ \E err \in SendErrors : send_message_raises(err)
    \/ check_reminders_exit /\ UNCHANGED last_run

Next == Handlers \/ Job

\* the bot: handlers and the job on one event loop
Spec == Init /\ [][Next]_vars

\* the texts a chat sends in the set-timezone conversation: names of
\* pytz.all_timezones, one of them with blanks around it, one of them in
\* lower case, and a name pytz does not know
TimezoneTexts == ZoneTexts \cup {T_UtcPadded, T_honolulu}

Timezone ==
    \E o \in Owners :
        \/ \E text \in {B_SetTimezone, C_timezone} : timezone_start(o, text, TRUE)
        \/ \E text \in TimezoneTexts : save_timezone(o, text, TRUE)
        \/ \E text \in {B_Back, C_cancel} : back_to_menu(o, text, TRUE)

\* the set-timezone conversation and the job on one event loop
TimezoneSpec == Init /\ [][Timezone \/ Job]_vars

\* ------------------------------------------------------------------------
\* Claims about check_reminders
\* ------------------------------------------------------------------------

\* the rows of the current run the loop has got to
Evaluated == 1..Len(trace)

\* the send_message calls the current run made for row k
CallsFor(k) == {j \in 1..Len(outbox) : outbox[j].row = k}

\* the owner's local date and time of day at utc_now
LocalNow(row) == AsTimezone(utc_now, ResolveTz(row.timezone))

\* the day distances that notify
Thresholds == {0, 1, 7, 14, 21, 28, 30}

\* the number of days from date today to the first day on or after it that
\* has the month and day of dt (not 29 February): that day is in the year
\* of today or in the next
DaysToNext(dt, today) ==
    LET dist  == {ToOrdinal([year |-> y, month |-> dt.month, day |-> dt.day])
                    - ToOrdinal(today) : y \in {today.year, today.year + 1}}
        ahead == {n \in dist : n >= 0}
    IN  CHOOSE n \in ahead : \A m \in ahead : n <= m

IsLeapDay(dt) == dt.month = 2 /\ dt.day = 29

\* the zone name is set and pytz does not know it
Unrecognised(timezone) ==
    timezone # None /\ timezone # <<>> /\ ~KnownZone(timezone)

\* C1: a notification is sent for a row only if the owner's local time of
\* day at the tick, formatted as zero-padded HH:MM, equals the row's
\* notify_time text; so of two events of one owner with different
\* notify_time at most one is notified in a tick
C1_TimeGate ==
    /\ \A j \in 1..Len(outbox) :
          rows[outbox[j].row].notify_time = StrftimeHM(LocalNow(rows[outbox[j].row]))
    /\ \A i, j \in 1..Len(outbox) :
          rows[outbox[i].row].chat_id = rows[outbox[j].row].chat_id
          => rows[outbox[i].row].notify_time = rows[outbox[j].row].notify_time

\* C1 witness: one owner's events at "09:00" and "09:01", local time 09:00,
\* the run is over and only the first was notified
C1_Witness ==
    /\ pc = "done"
    /\ Len(rows) = 2
    /\ rows[1].chat_id = rows[2].chat_id
    /\ rows[1].notify_time = H_09_00
    /\ rows[2].notify_time = H_09_01
    /\ LocalNow(rows[1]).hour = 9 /\ LocalNow(rows[1]).minute = 0
    /\ CallsFor(1) # {}
    /\ CallsFor(2) = {}
    /\ rows[2].event_date = rows[1].event_date

\* C2: for a row past the time gate whose date parses, a notification is
\* sent iff days_until is one of 0, 1, 7, 14, 21, 28, 30, and the message is
\* 'one month' for 30, 'N week(s)' with N = days_until / 7 for 7..28,
\* 'tomorrow' for 1 and 'today' for 0
C2_Threshold ==
    \A k \in Evaluated :
        trace[k].has_days =>
            LET d == trace[k].days_until
                m == trace[k].message
            IN  /\ (CallsFor(k) # {}) <=> (d \in Thresholds)
                /\ \A j \in CallsFor(k) : outbox[j].text = m
                /\ d = 30 => m.template = "is in 1 month"
                /\ d \in {7, 14, 21, 28} =>
                      m.template = "is in {weeks} week(s)" /\ m.weeks * 7 = d
                /\ d = 1 => m.template = "is TOMORROW"
                /\ d = 0 => m.template = "Today is the day"
                /\ d \notin Thresholds => m = NoMessage

\* C2 witness: an event on 15 June evaluated on local 1 June: 14 days, the
\* weeks message with N = 2
C2_Witness ==
    \E k \in Evaluated :
        /\ rows[k].event_date = D_15_06_2024
        /\ LocalNow(rows[k]).date = [year |-> 2025, month |-> 6, day |-> 1]
        /\ trace[k].has_days
        /\ trace[k].days_until = 14
        /\ \E j \in CallsFor(k) :
              outbox[j].text.template = "is in {weeks} week(s)" /\ outbox[j].text.weeks = 2

\* C3: for a row past the time gate whose date is a valid date other than
\* 29 February, days_until is the distance from the owner's local date to the
\* first date on or after it with the event's month and day, never negative
C3_Projection ==
    \A k \in Evaluated :
        /\ trace[k].step # "time"
        /\ ParsesDate(rows[k].event_date)
        /\ ~IsLeapDay(StrptimeDate(rows[k].event_date))
        => /\ trace[k].has_days
           /\ trace[k].days_until >= 0
           /\ trace[k].days_until =
                 DaysToNext(StrptimeDate(rows[k].event_date), LocalNow(rows[k]).date)

\* C3 witness: an event of 10 January evaluated on local 1 December projects
\* to next year, 40 days ahead
C3_Witness ==
    \E k \in Evaluated :
        /\ rows[k].event_date = D_10_01_2023
        /\ LocalNow(rows[k]).date = [year |-> 2024, month |-> 12, day |-> 1]
        /\ trace[k].has_days
        /\ trace[k].days_until = 40

\* C4: a row past the time gate with days_until = 0 gets exactly one
\* send_message call, the 'today' message; no row gets more than one call
\* in a tick
C4_TodayOnce ==
    /\ \A k \in Evaluated :
          trace[k].has_days /\ trace[k].days_until = 0 =>
              /\ Cardinality(CallsFor(k)) = 1
              /\ \A j \in CallsFor(k) : outbox[j].text.template = "Today is the day"
    /\ \A k \in 1..Len(rows) : Cardinality(CallsFor(k)) <= 1

\* C4 witness: the event is today in the owner's local calendar and the run
\* is over
C4_Witness ==
    /\ pc = "done"
    /\ \E k \in Evaluated :
          /\ trace[k].has_days
          /\ trace[k].days_until = 0
          /\ LocalNow(rows[k]).date.month = 6 /\ LocalNow(rows[k]).date.day = 15
          /\ CallsFor(k) # {}

\* the row is due at utc_now: its time matches, its date parses and projects,
\* and the day distance is a threshold
Due(row) ==
    LET today == LocalNow(row).date
    IN  /\ row.notify_time = StrftimeHM(LocalNow(row))
        /\ ParsesDate(row.event_date)
        /\ LET occ == ThisYearEvent(StrptimeDate(row.event_date), today)
           IN  ~occ.raised /\ DaysBetween(occ.date, today) \in Thresholds

\* the loop has stopped before the end of rows only at a send_message call
StopsOnlyAtSend ==
    Len(trace) < Len(rows) =>
        /\ pc \in {"sending", "raised"}
        /\ Len(trace) > 0
        /\ trace[Len(trace)].step = "send"
        /\ ParsesDate(rows[Len(trace)].event_date)

C6_AsClaimed ==
    pc \in {"done", "raised"} =>
        \A k \in 1..Len(rows) :
            /\ Due(rows[k])
            /\ outcome \in SendErrors => rows[k].chat_id # outbox[Len(outbox)].chat_id
            => CallsFor(k) # {}

\* C7: a row of an owner whose zone name is unrecognised is treated as a row
\* of an owner without a preference: the same time gate outcome, days_until
\* and message, both against such a row of the same snapshot and against the
\* row itself with the preference removed
C7_UtcFallback ==
    /\ \A j, k \in Evaluated :
          /\ Unrecognised(rows[j].timezone)
          /\ rows[k].timezone = None
          /\ rows[j].event_date = rows[k].event_date
          /\ rows[j].notify_time = rows[k].notify_time
          => /\ trace[j].step = trace[k].step
             /\ trace[j].has_days = trace[k].has_days
             /\ trace[j].days_until = trace[k].days_until
             /\ trace[j].message.template = trace[k].message.template
             /\ trace[j].message.weeks = trace[k].message.weeks
    /\ \A k \in Evaluated :
          Unrecognised(rows[k].timezone) =>
              /\ (trace[k].step # "time") <=>
                    (rows[k].notify_time = StrftimeHM(AsTimezone(utc_now, T_UTC)))
              /\ trace[k].has_days /\ ~IsLeapDay(StrptimeDate(rows[k].event_date)) =>
                    trace[k].days_until =
                        DaysToNext(StrptimeDate(rows[k].event_date), utc_now.date)

\* C7 witness: two rows with the same date and time, one owner with an
\* unrecognised zone name and one without a preference, both notified
C7_Witness ==
    /\ Len(rows) = 2
    /\ Unrecognised(rows[1].timezone)
    /\ rows[2].timezone = None
    /\ rows[1].event_date = rows[2].event_date
    /\ rows[1].notify_time = rows[2].notify_time
    /\ CallsFor(1) # {}
    /\ CallsFor(2) # {}
    /\ trace[1].days_until = 7

\* C10: every send_message call of a tick is addressed to the chat_id of the
\* event row it was made for and carries that event's escaped name, and that
\* event is stored under the addressed chat_id
C10_Addressed ==
    LET table == SortById(events)
    IN  \A j \in 1..Len(outbox) :
            LET k == outbox[j].row
            IN  /\ k \in 1..Len(rows)
                /\ outbox[j].chat_id = rows[k].chat_id
                /\ outbox[j].text.name = secure_text(rows[k].name)
                /\ Len(rows) = Len(table)
                /\ table[k].chat_id = outbox[j].chat_id
                /\ table[k].name = rows[k].name

\* C10 witness: two owners notified in one tick, each with its own event's name
C10_Witness ==
    /\ Len(outbox) = 2
    /\ outbox[1].chat_id # outbox[2].chat_id
    /\ outbox[1].text.name # outbox[2].text.name
    /\ outbox[2].text.name = <<"M", "u", "m", "&", "a", "m", "p", ";", "D", "a", "d">>

\* ------------------------------------------------------------------------
\* Claims about the store
\* ------------------------------------------------------------------------

\* C8: no step of check_reminders (the SELECT and the loop up to a send, the
\* return or the failure of a send, the end of the job) changes the events,
\* notes or user_settings table, whatever it sends and whatever is raised
C8_TickFrame == [][job' # job => UNCHANGED <<events, notes, user_settings>>]_vars

\* C8 witness: with rows in all three tables, a tick skipped one owner's
\* event at the time gate, called send_message for the other's, and ended
\* with that call raising
C8_Witness ==
    /\ pc = "raised"
    /\ outcome \in SendErrors
    /\ outbox # <<>>
    /\ events = SeedEvents
    /\ notes = SeedNotes
    /\ user_settings # {}

\* the table a numeric id sent by chat o addresses
DeleteTable(o) == IF user_data[o].delete_type = "event" THEN events ELSE notes

\* text is a number, and the row of that id in the table the request of chat
\* o addresses belongs to another chat
ForeignId(o, text) ==
    /\ IntParses(text)
    /\ \E r \in DeleteTable(o) : r.id = IntValue(text) /\ r.chat_id # o

\* this step dispatches an update of chat o to delete_router
DeleteRequest(o) ==
    /\ update_id' # update_id
    /\ update'.chat_id = o
    /\ Route(o, update'.message).handler = "delete_router"

\* C9: when a chat in DELETE_CHOICE sends the id of a row (of the table its
\* request addresses: events after 'Delete Date', else notes) that belongs to
\* another chat, no table changes, the reply is 'Could not find that ID' and
\* the conversation stays in DELETE_CHOICE; and in every step, a row leaves
\* events or notes only in a delete_router step of the row's own chat
C9_DeleteIsolated ==
    [][/\ \A o \in Owners :
             DeleteRequest(o) /\ ForeignId(o, update'.message.text) =>
                 /\ UNCHANGED <<events, notes, user_settings>>
                 /\ reply'.chat_id = o
                 /\ reply'.text = "Could not find that ID."
                 /\ conv'[o].delete = "DELETE_CHOICE"
       /\ \A r \in events \ events' : DeleteRequest(r.chat_id)
       /\ \A r \in notes \ notes' : DeleteRequest(r.chat_id)]_vars

\* C9 witness: chat 202 chose 'Delete Date' and sent "1", the id of the event
\* of chat 101: the event is still stored and the reply is 'Could not find'
C9_Witness ==
    /\ update.chat_id = 202
    /\ update.message.text = T_1
    /\ user_data[202].delete_type = "event"
    /\ \E e \in events : e.id = 1 /\ e.chat_id = 101
    /\ reply.chat_id = 202
    /\ reply.text = "Could not find that ID."
    /\ conv[202].delete = "DELETE_CHOICE"

\* ------------------------------------------------------------------------
\* Claims about the runs of the job
\* ------------------------------------------------------------------------

\* the message of a due row, from the row and utc_now alone
Notice(row) ==
    LET today == LocalNow(row).date
        occ   == ThisYearEvent(StrptimeDate(row.event_date), today)
    IN  SelectMessage(DaysBetween(occ.date, today), row.name)

\* C11: between runs the job holds nothing; the send_message calls of a run
\* are those for the due rows of the store at utc_now, in rowid order, each
\* with the message the row and utc_now give (all of them once the run has
\* returned, the first ones while a call is awaited or after one raised);
\* so a run in the same minute on the same rows as the run before makes the
\* same calls again
C11_Stateless ==
    LET snapshot == SelectRows(events, user_settings)
        due      == {k \in 1..Len(snapshot) : Due(snapshot[k])}
    IN  /\ pc = "idle" =>
              <<rows, utc_now, idx, trace, outbox, outcome>>
                  = <<<<>>, NoInstant, 0, <<>>, <<>>, "none">>
        /\ pc # "idle" =>
              /\ \A j \in 1..Len(outbox) :
                    /\ outbox[j].row \in due
                    /\ outbox[j].chat_id = snapshot[outbox[j].row].chat_id
                    /\ outbox[j].text = Notice(snapshot[outbox[j].row])
                    /\ \A i \in 1..(j - 1) : outbox[i].row < outbox[j].row
                    /\ \A k \in due : k < outbox[j].row => CallsFor(k) # {}
              /\ pc = "done" => \A k \in due : CallsFor(k) # {}
        /\ pc = "done" /\ last_run # NoRun => outbox = last_run.outbox

\* C11 witness: a run returned after notifying two events, and the run
\* before it, in the same minute on the same rows, had notified both too
C11_Witness ==
    /\ pc = "done"
    /\ last_run # NoRun
    /\ last_run.utc_now = utc_now
    /\ last_run.rows = rows
    /\ Len(last_run.outbox) = 2
    /\ outbox = last_run.outbox

\* C12: over any store (rows with dates that do not parse, notify_time
\* texts that never match, zone names pytz does not know), every run of the
\* job ends, a run that ended with an error of send_message is followed by
\* the scheduler taking the job up again, and runs keep starting for ever
C12_TickSurvival ==
    /\ []<>(pc = "idle")
    /\ []<>(pc # "idle")
    /\ (pc = "raised") ~> (pc = "idle")
    /\ (pc = "raised") ~> (pc \in {"sending", "done"})

\* C12 witness: a run over two rows of an owner with an unknown zone name,
\* the first with a date that does not parse, ended with send_message raising
C12_Witness ==
    /\ pc = "raised"
    /\ outcome \in SendErrors
    /\ Len(rows) = 2
    /\ ~ParsesDate(rows[1].event_date)
    /\ Unrecognised(rows[2].timezone)
    /\ CallsFor(2) # {}

\* ------------------------------------------------------------------------
\* Claims about the flows
\* ------------------------------------------------------------------------

\* the handler that ran in this step ("None" in a step of the job)
Ran ==
    IF update_id' = update_id THEN "None"
    ELSE Route(update'.chat_id, update'.message).handler

\* C13: a step adds a row to events only as get_time, under a fresh id and
\* the chat_id of the update, and one row at a time; a step removes a row
\* only as delete_router with delete_type "event", the row with the id sent
\* and the chat_id of the update, and only that row; every other handler and
\* every step of the job leaves events as it is; a row that stays keeps all
\* its fields
C13_EventLifecycle ==
    [][/\ \A e \in events' \ events :
             /\ Ran = "get_time"
             /\ e.chat_id = update'.chat_id
             /\ \A f \in events : f.id < e.id
             /\ events' = events \cup {e}
       /\ \A e \in events \ events' :
             /\ Ran = "delete_router"
             /\ user_data[update'.chat_id].delete_type = "event"
             /\ IntParses(update'.message.text)
             /\ e.id = IntValue(update'.message.text)
             /\ e.chat_id = update'.chat_id
             /\ events' = events \ {e}
       /\ Ran \notin {"get_time", "delete_router"} => events' = events
       /\ \A e \in events : \A f \in events' : e.id = f.id => e = f]_vars

\* C13 witness: the last step of the add-event flow stored the first event
\* of a new file under the chat of the update, with the name and date given
C13_Witness ==
    /\ reply.text = "Saved:"
    /\ Cardinality(events) = 1
    /\ \A e \in events :
          /\ e.id = 1
          /\ e.chat_id = update.chat_id
          /\ e.name = T_MumDad
          /\ e.event_date = D_29_02_2024
          /\ e.notify_time = H_12_00
    /\ conv[update.chat_id].add_event = "END"

\* C14: user_settings holds at most one row per chat; it changes only when
\* save_timezone accepts a zone name, and then the row of the chat of the
\* update holds that name and the rows of the other chats are as before; a
\* chat that has a row never loses it
C14_TimezoneUpsert ==
    [][/\ \A o \in Owners : Cardinality({u \in user_settings' : u.chat_id = o}) <= 1
       /\ Ran = "save_timezone" /\ Strip(update'.message.text) \in AllTimezones =>
             /\ [chat_id |-> update'.chat_id, timezone |-> Strip(update'.message.text)]
                    \in user_settings'
             /\ {u \in user_settings' : u.chat_id # update'.chat_id}
                    = {u \in user_settings : u.chat_id # update'.chat_id}
       /\ ~(Ran = "save_timezone" /\ Strip(update'.message.text) \in AllTimezones) =>
             user_settings' = user_settings
       /\ \A u \in user_settings : \E v \in user_settings' : v.chat_id = u.chat_id]_vars

\* C14 witness: chat 202, stored with "UTC", set "Asia/Singapore" and holds
\* that one row; chat 101 set "Pacific/Honolulu" before or after
C14_Witness ==
    /\ events = SeedEvents
    /\ user_settings = {[chat_id |-> 202, timezone |-> T_Singapore],
                        [chat_id |-> 101, timezone |-> T_Honolulu]}

\* the event our_journey computes from: the first row, in rowid order, of
\* the chat replied to that LIKE 'Anniversary%' matches
StartOf(o) == RowsOf({e \in events : LikeAnniversary(e.name)}, o)[1]

\* C15: the reply of our_journey carries total_days d, the days from the
\* start date to the server's today, and years, months and days with
\* d = 365 * years + r, 0 <= r < 365, r = 30 * months + days and
\* 0 <= days < 30 (that is years = d // 365, months = (d % 365) // 30 and
\* days = (d % 365) % 30); for d = 400 they are 1, 1 and 5
C15_Breakdown ==
    reply.text = "Our Journey Together" =>
        LET d      == DaysBetween(clock, StrptimeDate(StartOf(reply.chat_id).event_date))
            years  == reply.numbers[1]
            months == reply.numbers[2]
            days   == reply.numbers[3]
            r      == d - 365 * years
        IN  /\ Len(reply.numbers) = 4
            /\ reply.numbers[4] = d
            /\ 0 <= r /\ r < 365
            /\ r = 30 * months + days
            /\ 0 <= days /\ days < 30
            /\ d = 400 => reply.numbers = <<1, 1, 5, 400>>

\* C15 witness: asked 400 days after the start date, the reply is 1 year,
\* 1 month, 5 days and 400 days
C15_Witness ==
    /\ reply.text = "Our Journey Together"
    /\ StartOf(reply.chat_id).event_date = D_15_06_2024
    /\ clock = [year |-> 2025, month |-> 7, day |-> 20]
    /\ reply.numbers = <<1, 1, 5, 400>>

\* the name begins with the letters of "Anniversary", in upper or lower case
BeginsAnyCase(name) ==
    /\ Len(name) >= Len(T_AnniversaryPrefix)
    /\ \A i \in 1..Len(T_AnniversaryPrefix) :
          LowerChar(name[i]) = LowerChar(T_AnniversaryPrefix[i])

\* the name begins with "Anniversary" as written
BeginsLiteral(name) ==
    /\ Len(name) >= Len(T_AnniversaryPrefix)
    /\ SubSeq(name, 1, Len(T_AnniversaryPrefix)) = T_AnniversaryPrefix

\* the reply of our_journey to chat o when the rows it may use are mine:
\* 'not configured' without such a row, else computed from the first of
\* them, or the error reply when its date does not parse
JourneyReply(o, mine) ==
    /\ reply'.chat_id = o
    /\ IF mine = {}
       THEN reply'.text = "I don't know when you started!"
       ELSE LET first == CHOOSE e \in mine : \A f \in mine : e.id <= f.id
            IN  IF ParsesDate(first.event_date)
                THEN /\ reply'.text = "Our Journey Together"
                     /\ reply'.numbers[4] = DaysBetween(clock', StrptimeDate(first.event_date))
                ELSE reply'.text = "Error calculating date."

C17_NotZoneAdjusted ==
    /\ reply.text = "Our Journey Together" =>
          /\ reply.numbers[4]
                = ToOrdinal(clock) - ToOrdinal(StrptimeDate(StartOf(reply.chat_id).event_date))
          /\ reply.numbers[1] = reply.numbers[4] \div 365
    /\ \A k \in Evaluated :
          trace[k].has_days /\ ~IsLeapDay(StrptimeDate(rows[k].event_date)) =>
              trace[k].days_until
                  = DaysToNext(StrptimeDate(rows[k].event_date), LocalNow(rows[k]).date)

\* C17 witness: on 15 June 2025, 09:00 UTC, a chat in the zone of Honolulu,
\* where it is 14 June, 23:00: the job counts 1 day to the event of 15 June
\* 2024, our_journey counts 365 days since it
C17_Witness ==
    /\ reply.text = "Our Journey Together"
    /\ reply.chat_id = 101
    /\ user_settings = {[chat_id |-> 101, timezone |-> T_Honolulu]}
    /\ pc = "sending"
    /\ utc_now.date = clock
    /\ LocalNow(rows[1]).date # clock
    /\ trace[1].days_until = 1
    /\ reply.numbers = <<1, 0, 0, 365>>

\* the year the job projects an event of 29 February to: the year of today,
\* or the next when 29 February of a leap year of today has passed
ProjectedYear(today) ==
    IF IsLeap(today.year) /\ DateLess([year |-> today.year, month |-> 2, day |-> 29], today)
    THEN today.year + 1
    ELSE today.year

\* C18: a row of 29 February past the time gate, in a run in which the
\* projected year is no leap year, ends in the except branch: it gets no
\* send_message call, the loop goes on to the rows after it, and a run that
\* ended with an exception ended at the call for another row
C18_LeapDay ==
    \A k \in Evaluated :
        /\ trace[k].step # "time"
        /\ ParsesDate(rows[k].event_date)
        /\ IsLeapDay(StrptimeDate(rows[k].event_date))
        /\ ~IsLeap(ProjectedYear(LocalNow(rows[k]).date))
        => /\ trace[k].step = "ValueError"
           /\ CallsFor(k) = {}
           /\ k < Len(rows) => Len(trace) > k
           /\ pc = "raised" => idx # k /\ CallsFor(idx) # {}

\* C18 witness: on 1 March 2024 the event of 29 February, projected to 2025,
\* is passed over, and the event after it is evaluated
C18_Witness ==
    /\ pc = "done"
    /\ utc_now.date = [year |-> 2024, month |-> 3, day |-> 1]
    /\ Len(rows) = 2
    /\ rows[1].event_date = D_29_02_2024
    /\ rows[2].event_date = D_15_06_2024
    /\ trace[1].step = "ValueError"
    /\ trace[2].has_days
    /\ trace[2].days_until = 106
    /\ outbox = <<>>

\* there is a minute of the day whose strftime("%H:%M") text is notify_time
CanFire(notify_time) ==
    \E h \in 0..23 : \E m \in 0..59 :
        notify_time = StrftimeHM([date |-> NoDate, hour |-> h, minute |-> m])

\* C19 as claimed: the notify_time of every stored event is the text of a
\* minute of the day, zero-padded, so that the time gate of the job passes
\* for it at that minute
C19_AsClaimed == \A e \in events : CanFire(e.notify_time)

\* the state of the add-event conversation of the chat of the update, before
\* and after the step
AddEventState == conv[update'.chat_id].add_event

AddEventStateAfter == conv'[update'.chat_id].add_event

\* the steps of the add-event conversation: NAME is left for DATE only by
\* get_name, which captures the name; DATE is left for TIME only by get_date
\* on a text that parses as a date, which captures it; a text that does not
\* parse keeps DATE and a time that does not parse keeps TIME, and neither
\* inserts; a row is inserted only by get_time in TIME, with the chat of the
\* update and the name and date captured; every stored event_date parses
AddEventSteps ==
    /\ update_id' # update_id /\ AddEventStateAfter = "DATE" /\ AddEventState # "DATE" =>
          /\ AddEventState = "NAME"
          /\ Ran = "get_name"
          /\ user_data'[update'.chat_id].event_name = update'.message.text
    /\ update_id' # update_id /\ AddEventStateAfter = "TIME" /\ AddEventState # "TIME" =>
          /\ AddEventState = "DATE"
          /\ Ran = "get_date"
          /\ ParsesDate(update'.message.text)
          /\ user_data'[update'.chat_id].event_date = update'.message.text
          /\ user_data'[update'.chat_id].event_name = user_data[update'.chat_id].event_name
    /\ Ran = "get_date" /\ ~ParsesDate(update'.message.text) =>
          /\ AddEventStateAfter = "DATE"
          /\ events' = events
          /\ user_data' = user_data
    /\ Ran = "get_time" /\ Lower(Strip(update'.message.text)) # T_skip
                        /\ ~ParsesTime(Strip(update'.message.text)) =>
          /\ AddEventStateAfter = "TIME"
          /\ events' = events
    /\ \A e \in events' \ events :
          /\ Ran = "get_time"
          /\ AddEventState = "TIME"
          /\ e.chat_id = update'.chat_id
          /\ e.name = user_data[update'.chat_id].event_name
          /\ e.event_date = user_data[update'.chat_id].event_date
          /\ events' = events \cup {e}
    /\ \A e \in events' : ParsesDate(e.event_date)

\* Back or /cancel, sent while the add-event conversation of the chat is in
\* any of its states, ends it and inserts nothing
CancelEnds ==
    update_id' # update_id /\ Fallback(update'.message) /\ AddEventState # "END" =>
        /\ AddEventStateAfter = "END"
        /\ events' = events

\* C20 as claimed: the steps of the add-event conversation, and Back or
\* /cancel ending it in any state
C20_AsClaimed == [][AddEventSteps /\ CancelEnds]_vars

(***************************************************************************)
(* Claims about the numbers of the journey                                 *)
(***************************************************************************)

\* C24 (as amended): the years, months and days our_journey reports for a
\* start date the add-event flow accepts, earlier or later than the server's
\* today: months is between 0 and 12, days between 0 and 29, and years is
\* negative exactly when the start date is later than today; months is 12
\* exactly when 360 to 364 days remain after the whole years
C24_Components ==
    reply.text = "Our Journey Together" =>
        LET began  == StrptimeDate(StartOf(reply.chat_id).event_date)
            d      == DaysBetween(clock, began)
            years  == reply.numbers[1]
            months == reply.numbers[2]
            days   == reply.numbers[3]
        IN  /\ 0 <= months /\ months <= 12
            /\ 0 <= days /\ days <= 29
            /\ years < 0 <=> DateLess(clock, began)
            /\ months = 12 <=> d - 365 * years \in 360..364

\* C24 witness: asked on 30 January 2024 for a start date of 15 June 2024,
\* 137 days later, the reply is -1 years, 7 months and 18 days
C24_Witness ==
    /\ reply.text = "Our Journey Together"
    /\ StartOf(reply.chat_id).event_date = D_15_06_2024
    /\ clock = [year |-> 2024, month |-> 1, day |-> 30]
    /\ reply.numbers = <<-1, 7, 18, -137>>

\* C24 as claimed: years, months and days are not negative, months is at
\* most 11 and days at most 29
C24_AsClaimed ==
    reply.text = "Our Journey Together" =>
        /\ reply.numbers[1] >= 0
        /\ reply.numbers[2] >= 0 /\ reply.numbers[2] <= 11
        /\ reply.numbers[3] >= 0 /\ reply.numbers[3] <= 29

(***************************************************************************)
(* Claims about the zone names stored                                      *)
(***************************************************************************)

\* C23: save_timezone rejects a text that is not, once stripped, a name of
\* pytz.all_timezones: the conversation stays in SET_TIMEZONE and
\* user_settings is unchanged; so every stored preference is a name of
\* pytz.all_timezones, which pytz.timezone resolves to that zone, and no row
\* the job reads carries a zone name for which it falls back to UTC
C23_Validation ==
    [][/\ Ran = "save_timezone" /\ Strip(update'.message.text) \notin AllTimezones =>
             /\ user_settings' = user_settings
             /\ conv'[update'.chat_id].timezone = "SET_TIMEZONE"
             /\ reply'.text = "Invalid Timezone."
       /\ \A u \in user_settings' :
             /\ u.timezone \in AllTimezones
             /\ ResolveTz(u.timezone) = u.timezone
       /\ \A i \in 1..Len(rows') :
             rows'[i].timezone = None \/ KnownZone(rows'[i].timezone)]_vars

\* C23 witness: chat 101 has set " UTC ", stored as "UTC"; chat 202, stored
\* with "UTC", sent "pacific/honolulu", which pytz.timezone would resolve:
\* it is rejected, the conversation stays open and the row is as before
C23_Witness ==
    /\ reply.text = "Invalid Timezone."
    /\ update = [chat_id |-> 202, message |-> TextMessage(T_honolulu)]
    /\ conv[202].timezone = "SET_TIMEZONE"
    /\ user_settings = {[chat_id |-> 202, timezone |-> T_UTC],
                        [chat_id |-> 101, timezone |-> T_UTC]}

(***************************************************************************)
(* Claims about the job run beside the handlers                            *)
(***************************************************************************)

\* row r of the SELECT is the row of stored event e
RowOfEvent(r, e) ==
    /\ r.chat_id = e.chat_id
    /\ r.name = e.name
    /\ r.event_date = e.event_date
    /\ r.notify_time = e.notify_time

\* C22 as claimed: every send_message call the job makes is for a row whose
\* event is in the events table at the moment of the call, whatever
\* handlers ran while the job awaited its earlier calls
C22_AsClaimed ==
    [][\A j \in 1..Len(outbox') :
           j > Len(outbox) => \E e \in events' : RowOfEvent(rows'[outbox'[j].row], e)]_vars

(***************************************************************************)
(* Claims about the delete flow                                            *)
(***************************************************************************)

\* C21 as claimed: a numeric id sent to delete_router removes a row of
\* events only if the chat chose "Delete Date" since its delete conversation
\* opened, and a row of notes only if it chose "Delete Note" since then; when
\* it chose no category since then, nothing is removed
C21_AsClaimed ==
    [][Ran = "delete_router" /\ IntParses(update'.message.text) =>
           /\ events' # events => chosen[update'.chat_id] = "event"
           /\ notes' # notes => chosen[update'.chat_id] = "note"
           /\ chosen[update'.chat_id] = "None" => events' = events /\ notes' = notes]_vars

====
